---- MODULE Spec2Model ----
(***************************************************************************)
(* CQ-code tags (src/src/tags.ts): the escaper, the tokenizer, the tag     *)
(* parser and the tag object with its two serializations.                  *)
(*                                                                         *)
(* A string is a sequence of one-character strings.  A JavaScript object   *)
(* is the sequence of its own enumerable entries in property order.        *)
(***************************************************************************)
EXTENDS Integers, Sequences, FiniteSets

VARIABLES pc, str, insideCQ, escaped, unescaped,
          tname, key, msg, tokens, tags,
          tag, ret, op, ctor, lastMod, lastTag

escVars   == <<str, insideCQ, escaped, unescaped>>
embedVars == <<tname, key>>
parseVars == <<msg, tokens, tags>>
tagVars   == <<tag, ret, op, ctor, lastMod, lastTag>>
vars      == <<pc, escVars, embedVars, parseVars, tagVars>>

(***************************************************************************)
(* Bounds of the input sets.                                               *)
(***************************************************************************)
MaxEscFrags == 3
MaxMsgFrags == 4
MaxPieces == 2
MaxEmbedFrags == 3
MaxBaseAttrs == 2

(***************************************************************************)
(* Strings.                                                                *)
(***************************************************************************)
Amp    == <<"&">>
LBr    == <<"[">>
RBr    == <<"]">>
Comma  == <<",">>
Eq     == <<"=">>
AmpEnt == <<"&", "a", "m", "p", ";">>
LBrEnt == <<"&", "#", "9", "1", ";">>
RBrEnt == <<"&", "#", "9", "3", ";">>
ComEnt == <<"&", "#", "4", "4", ";">>
CQOpen == <<"[", "C", "Q", ":">>

StartsWith(s, p) == Len(s) >= Len(p) /\ SubSeq(s, 1, Len(p)) = p

Drop(s, n) == SubSeq(s, n + 1, Len(s))

Contains(s, p) == \E i \in 0..(Len(s) - Len(p)) : SubSeq(s, i + 1, i + Len(p)) = p

RECURSIVE Concat(_)
Concat(ss) == IF ss = <<>> THEN <<>> ELSE Head(ss) \o Concat(Tail(ss))

\* All concatenations of at most n members of frags.
RECURSIVE Words(_, _)
Words(frags, n) ==
  IF n = 0 THEN {<<>>}
  ELSE LET W == Words(frags, n - 1) IN W \cup {w \o f : w \in W, f \in frags}

\* String.prototype.replace with a global regular expression that is a
\* literal: the matches are found left to right and do not overlap, and the
\* replacement text is not scanned again.
RECURSIVE ReplaceAll(_, _, _)
ReplaceAll(s, pat, rep) ==
  IF Len(s) < Len(pat) THEN s
  ELSE IF StartsWith(s, pat) THEN rep \o ReplaceAll(Drop(s, Len(pat)), pat, rep)
  ELSE <<Head(s)>> \o ReplaceAll(Tail(s), pat, rep)

(***************************************************************************)
(* CQ.escape and CQ.unescape.                                              *)
(***************************************************************************)
\* A slip in CQ.escape: the ampersand rule applied after the bracket rules.
escapeAmpLast(s, inside) ==
  LET t1 == ReplaceAll(s, LBr, LBrEnt)
      t2 == ReplaceAll(t1, RBr, RBrEnt)
      t3 == ReplaceAll(t2, Amp, AmpEnt)
  IN IF inside THEN ReplaceAll(t3, Comma, ComEnt) ELSE t3

escape(s, inside) ==
  LET t1 == ReplaceAll(s, Amp, AmpEnt)
      t2 == ReplaceAll(t1, LBr, LBrEnt)
      temp == ReplaceAll(t2, RBr, RBrEnt)
  IN IF inside THEN ReplaceAll(temp, Comma, ComEnt) ELSE temp

unescape(s) ==
  ReplaceAll(ReplaceAll(ReplaceAll(ReplaceAll(s, ComEnt, Comma),
                                   LBrEnt, LBr), RBrEnt, RBr), AmpEnt, Amp)

(***************************************************************************)
(* JavaScript values.  t is the type tag; s the characters of a string, n  *)
(* the number, o the entries of an object.                                 *)
(***************************************************************************)
StrV(s)   == [t |-> "string", s |-> s, n |-> 0, o |-> <<>>]
NumV(n)   == [t |-> "number", s |-> <<>>, n |-> n, o |-> <<>>]
ObjV(o)   == [t |-> "object", s |-> <<>>, n |-> 0, o |-> o]
Undefined == [t |-> "undefined", s |-> <<>>, n |-> 0, o |-> <<>>]
Null      == [t |-> "null", s |-> <<>>, n |-> 0, o |-> <<>>]
\* A function inherited from Object.prototype.
BuiltinFn == [t |-> "function", s |-> <<>>, n |-> 0, o |-> <<>>]

DigitChars == <<"0", "1", "2", "3", "4", "5", "6", "7", "8", "9">>

RECURSIVE NatToStr(_)
NatToStr(n) ==
  IF n < 10 THEN <<DigitChars[n + 1]>>
  ELSE NatToStr(n \div 10) \o <<DigitChars[(n % 10) + 1]>>

\* ToString of a value, as String(v) and a template literal apply it.
JSString(v) ==
  CASE v.t = "string"    -> v.s
    [] v.t = "number"    -> NatToStr(v.n)
    [] v.t = "undefined" -> <<"u", "n", "d", "e", "f", "i", "n", "e", "d">>
    [] v.t = "null"      -> <<"n", "u", "l", "l">>
    [] v.t = "object"    -> <<"[", "o", "b", "j", "e", "c", "t", " ",
                              "O", "b", "j", "e", "c", "t", "]">>
    [] OTHER             -> <<"f", "u", "n", "c", "t", "i", "o", "n">>

(***************************************************************************)
(* JavaScript objects: own enumerable string-keyed properties, kept in the *)
(* order OrdinaryOwnPropertyKeys gives them: array indices in ascending    *)
(* numeric order, then the other keys in creation order.                   *)
(***************************************************************************)
IsDigit(c) == \E i \in 1..10 : DigitChars[i] = c

DigitVal(c) == (CHOOSE i \in 1..10 : DigitChars[i] = c) - 1

\* The largest array index, 2^32 - 2.
MaxIndexStr == <<"4", "2", "9", "4", "9", "6", "7", "2", "9", "4">>

\* a < b for digit strings of one length.
LexLess(a, b) ==
  \E i \in 1..Len(a) :
    /\ \A j \in 1..(i - 1) : a[j] = b[j]
    /\ DigitVal(a[i]) < DigitVal(b[i])

\* a < b for canonical numeric strings.
IndexLess(a, b) == Len(a) < Len(b) \/ (Len(a) = Len(b) /\ LexLess(a, b))

IsArrayIndex(k) ==
  /\ Len(k) >= 1
  /\ \A i \in 1..Len(k) : IsDigit(k[i])
  /\ (Len(k) > 1 => k[1] # "0")
  /\ (IndexLess(k, MaxIndexStr) \/ k = MaxIndexStr)

Entry(k, v) == [k |-> k, v |-> v]

Keys(o) == {o[i].k : i \in DOMAIN o}

KeySeq(o) == [i \in DOMAIN o |-> o[i].k]

HasOwn(o, k) == \E i \in DOMAIN o : o[i].k = k

OwnValue(o, k) == o[CHOOSE i \in DOMAIN o : o[i].k = k].v

ProtoName == <<"_", "_", "p", "r", "o", "t", "o", "_", "_">>

\* The names every object inherits from Object.prototype as functions.
ObjectPrototypeNames ==
  { <<"t", "o", "S", "t", "r", "i", "n", "g">>,
    <<"v", "a", "l", "u", "e", "O", "f">>,
    <<"c", "o", "n", "s", "t", "r", "u", "c", "t", "o", "r">> }

\* obj[k] of a plain object: the own property, else what Object.prototype
\* gives, else undefined.
PropGet(o, k) ==
  IF HasOwn(o, k) THEN OwnValue(o, k)
  ELSE IF k \in ObjectPrototypeNames THEN BuiltinFn
  ELSE IF k = ProtoName THEN ObjV(<<>>)
  ELSE Undefined

\* Where a new key goes: after the array indices smaller than it when it is
\* an array index, at the end otherwise.
InsertAt(o, k) ==
  IF IsArrayIndex(k)
  THEN Cardinality({i \in DOMAIN o :
                      IsArrayIndex(o[i].k) /\ IndexLess(o[i].k, k)}) + 1
  ELSE Len(o) + 1

\* CreateDataProperty: an existing key keeps its place and gets the value.
ObjDefine(o, k, v) ==
  IF HasOwn(o, k)
  THEN [i \in DOMAIN o |-> IF o[i].k = k THEN Entry(k, v) ELSE o[i]]
  ELSE LET p == InsertAt(o, k)
       IN SubSeq(o, 1, p - 1) \o <<Entry(k, v)>> \o SubSeq(o, p, Len(o))

\* obj[k] = v on a plain object: the key __proto__ runs the setter of
\* Object.prototype, which creates nothing (and ignores a primitive).
ObjSet(o, k, v) == IF k = ProtoName THEN o ELSE ObjDefine(o, k, v)

\* delete obj[k]
ObjDelete(o, k) ==
  LET keep == {i \in DOMAIN o : o[i].k # k}
      F[i \in 0..Len(o)] ==
        IF i = 0 THEN <<>>
        ELSE IF i \in keep THEN Append(F[i - 1], o[i]) ELSE F[i - 1]
  IN F[Len(o)]

\* Object.fromEntries(pairs)
RECURSIVE FromEntriesInto(_, _)
FromEntriesInto(o, pairs) ==
  IF pairs = <<>> THEN o
  ELSE FromEntriesInto(ObjDefine(o, Head(pairs).k, Head(pairs).v), Tail(pairs))

FromEntries(pairs) == FromEntriesInto(<<>>, pairs)

\* The own enumerable entries of ToObject(v): an object's own, a string's
\* characters under their indices, nothing for the other primitives.
OwnEntries(v) ==
  CASE v.t = "object" -> v.o
    [] v.t = "string" -> [i \in 1..Len(v.s) |->
                            Entry(NatToStr(i - 1), StrV(<<v.s[i]>>))]
    [] OTHER          -> <<>>

RECURSIVE AssignEntries(_, _)
AssignEntries(o, es) ==
  IF es = <<>> THEN o
  ELSE AssignEntries(ObjSet(o, Head(es).k, Head(es).v), Tail(es))

\* Object.assign({}, a, b)
ObjectAssign(a, b) == AssignEntries(AssignEntries(<<>>, OwnEntries(a)), OwnEntries(b))

(***************************************************************************)
(* Results of a call: a returned value or a thrown error.                  *)
(***************************************************************************)
NoRet       == [err |-> "", kind |-> "none", v |-> Undefined,
                type |-> Undefined, data |-> <<>>]
RetVal(v)   == [err |-> "", kind |-> "value", v |-> v,
                type |-> Undefined, data |-> <<>>]
RetTag(t, d) == [err |-> "", kind |-> "tag", v |-> Undefined,
                 type |-> t, data |-> d]
RetThis     == [err |-> "", kind |-> "this", v |-> Undefined,
                type |-> Undefined, data |-> <<>>]
Throw(e)    == [err |-> e, kind |-> "throw", v |-> Undefined,
                type |-> Undefined, data |-> <<>>]

(***************************************************************************)
(* class CQTag and class CQText.                                           *)
(***************************************************************************)
TypeName     == <<"_", "t", "y", "p", "e">>
DataName     == <<"_", "d", "a", "t", "a">>
ModifierName == <<"_", "m", "o", "d", "i", "f", "i", "e", "r">>
TagNameName  == <<"t", "a", "g", "N", "a", "m", "e">>
GetName      == <<"g", "e", "t">>
ToJSONName   == <<"t", "o", "J", "S", "O", "N">>
ToStringName == <<"t", "o", "S", "t", "r", "i", "n", "g">>
ModifyName   == <<"m", "o", "d", "i", "f", "i", "e", "r">>
ToTagName    == <<"t", "o", "T", "a", "g">>
TextName     == <<"t", "e", "x", "t">>

\* The fields and the members of an instance: the names an accessor of the
\* constructor can take over.
MemberNames ==
  { TypeName, DataName, ModifierName, TagNameName, GetName, ToJSONName,
    ToStringName, ModifyName, ToTagName }

\* The constructor: the three fields, then an own accessor on the instance
\* for every key of data.  An accessor named like a field replaces the
\* field; one named like a method hides the method of the prototype.
CQTag(type, data) ==
  [ cls      |-> "CQTag",
    type     |-> StrV(type),
    data     |-> ObjV(data),
    modifier |-> ObjV(<<>>),
    getters  |-> Keys(data) ]

CQText(text) ==
  [CQTag(TextName, <<Entry(TextName, StrV(text))>>) EXCEPT !.cls = "CQText"]

\* this._data: the field, unless the constructor replaced it by the accessor
\* () => this._data[key], whose evaluation reads this._data again, without
\* end.
ThisData(this) ==
  IF DataName \in this.getters THEN Throw("RangeError") ELSE RetVal(this.data)

\* The accessor the constructor registers for key: () => this._data[key]
Getter(this, k) ==
  LET d == ThisData(this)
  IN IF d.err # "" THEN d ELSE RetVal(PropGet(d.v.o, k))

\* this._type
ThisType(this) ==
  IF TypeName \in this.getters THEN Getter(this, TypeName) ELSE RetVal(this.type)

\* this._modifier
ThisModifier(this) ==
  IF ModifierName \in this.getters THEN Getter(this, ModifierName)
  ELSE RetVal(this.modifier)

\* get tagName()
tagName(this) ==
  IF TagNameName \in this.getters THEN Getter(this, TagNameName)
  ELSE ThisType(this)

\* this[name] for a method name, then the call: an own accessor hides the
\* method of the prototype, and what it gives (a value of data, which is
\* no function) is called instead.
Method(this, name) ==
  IF name \in this.getters
  THEN LET g == Getter(this, name)
       IN IF g.err # "" THEN g ELSE Throw("TypeError")
  ELSE RetVal(BuiltinFn)

\* get(key)
get(this, k) == Getter(this, k)

\* Object.assign({}, this._data, this._modifier)
Overlaid(this) ==
  LET d == ThisData(this)
      m == ThisModifier(this)
  IN IF d.err # "" THEN d
     ELSE IF m.err # "" THEN m
     ELSE RetVal(ObjV(ObjectAssign(d.v, m.v)))

\* The forEach of toString: ,k=v for every entry whose value is not undefined.
RECURSIVE WirePairs(_)
WirePairs(es) ==
  IF es = <<>> THEN <<>>
  ELSE (IF Head(es).v.t # "undefined"
        THEN Comma \o Head(es).k \o Eq \o JSString(Head(es).v)
        ELSE <<>>) \o WirePairs(Tail(es))

\* CQTag.prototype.toString
TagToString(this) ==
  LET t == ThisType(this)
      o == Overlaid(this)
  IN IF t.err # "" THEN t
     ELSE IF o.err # "" THEN o
     ELSE RetVal(StrV(CQOpen \o JSString(t.v) \o WirePairs(o.v.o) \o RBr))

\* CQText.prototype.toString
TextToString(this) ==
  LET d == ThisData(this)
  IN IF d.err # "" THEN d ELSE RetVal(PropGet(d.v.o, TextName))

\* A slip in class CQText: no toString of its own, so the inherited one runs.
toStringInherited(this) == TagToString(this)

\* toString() on an instance
toString(this) ==
  IF this.cls = "CQText" THEN TextToString(this) ELSE TagToString(this)

\* The forEach of toTag: delete data[k] for every entry with v == null.
RECURSIVE DeleteNullish(_, _)
DeleteNullish(o, es) ==
  IF es = <<>> THEN o
  ELSE DeleteNullish(IF Head(es).v.t \in {"undefined", "null"}
                     THEN ObjDelete(o, Head(es).k) ELSE o,
                     Tail(es))

\* toTag()
toTag(this) ==
  LET o == Overlaid(this)
      n == tagName(this)
  IN IF o.err # "" THEN o
     ELSE IF n.err # "" THEN n
     ELSE RetTag(n.v, DeleteNullish(o.v.o, o.v.o))

\* toJSON(): return this.toTag()
toJSON(this) ==
  LET f == Method(this, ToTagName)
  IN IF f.err # "" THEN f ELSE toTag(this)

\* modifier(m): the module is strict code, so the assignment to a field
\* that has become an accessor without a setter throws.
modifier(this, m) ==
  IF ModifierName \in this.getters
  THEN [this |-> this, ret |-> Throw("TypeError")]
  ELSE [this |-> [this EXCEPT !.modifier = ObjV(m)], ret |-> RetThis]

(***************************************************************************)
(* SPLIT, CQ_TAG_REGEXP and CQ.parse.                                      *)
(***************************************************************************)
\* A slip in SPLIT: the lookbehind left out, /(?=\[CQ:)/.
SPLITLookaheadOnly(s, q) == StartsWith(Drop(s, q), CQOpen)

\* SPLIT matches the empty string at offset q of s: (?=\[CQ:) sees "[CQ:"
\* ahead, or (?<=]) sees "]" behind.
SPLIT(s, q) ==
  \/ StartsWith(Drop(s, q), CQOpen)
  \/ (q >= 1 /\ s[q] = "]")

\* The loop of RegExp.prototype[Symbol.split]: p is the start of the current
\* piece, q the offset tried; a match that ends at p is passed over.
RECURSIVE SplitLoop(_, _, _, _)
SplitLoop(s, p, q, acc) ==
  IF q >= Len(s) THEN Append(acc, Drop(s, p))
  ELSE IF ~SPLIT(s, q) \/ q = p THEN SplitLoop(s, p, q + 1, acc)
  ELSE SplitLoop(s, q, q, Append(acc, SubSeq(s, p + 1, q)))

\* A slip in SPLIT: "]" matched itself, /(?=\[CQ:)|]/, so that split takes
\* it out of the pieces.
RECURSIVE SplitLoopConsuming(_, _, _, _)
SplitLoopConsuming(s, p, q, acc) ==
  IF q >= Len(s) THEN Append(acc, Drop(s, p))
  ELSE LET e == IF StartsWith(Drop(s, q), CQOpen) THEN q
                ELSE IF s[q + 1] = "]" THEN q + 1
                ELSE -1
       IN IF e = -1 \/ e = p THEN SplitLoopConsuming(s, p, q + 1, acc)
          ELSE SplitLoopConsuming(s, e, e, Append(acc, SubSeq(s, p + 1, q)))

SplitConsuming(s) ==
  IF Len(s) = 0 THEN <<s>> ELSE SplitLoopConsuming(s, 0, 0, <<>>)

\* msg.split(SPLIT)
Split(s) ==
  IF Len(s) = 0 THEN (IF SPLIT(s, 0) THEN <<>> ELSE <<s>>)
  ELSE SplitLoop(s, 0, 0, <<>>)

LowerChars ==
  { "a", "b", "c", "d", "e", "f", "g", "h", "i", "j", "k", "l", "m",
    "n", "o", "p", "q", "r", "s", "t", "u", "v", "w", "x", "y", "z" }

\* The length of the longest prefix of s made of a-z.
RECURSIVE LowerRun(_)
LowerRun(s) ==
  IF s # <<>> /\ Head(s) \in LowerChars THEN 1 + LowerRun(Tail(s)) ELSE 0

NoMatch == [ok |-> FALSE, name |-> <<>>, hasValue |-> FALSE, value |-> <<>>]

\* CQ_TAG_REGEXP.exec(s): [a-z]+ is greedy and must be followed by "," or
\* "]", so the first group is the whole run of letters; the second group is
\* what lies between the "," and the final "]", not empty and with no "]".
CQ_TAG_REGEXP(s) ==
  IF ~StartsWith(s, CQOpen) THEN NoMatch
  ELSE LET rest  == Drop(s, Len(CQOpen))
           n     == LowerRun(rest)
           after == Drop(rest, n)
           body  == SubSeq(after, 2, Len(after) - 1)
       IN IF n = 0 THEN NoMatch
          ELSE IF after = RBr
          THEN [ok |-> TRUE, name |-> SubSeq(rest, 1, n),
                hasValue |-> FALSE, value |-> <<>>]
          ELSE IF /\ Len(after) >= 3
                  /\ after[1] = ","
                  /\ after[Len(after)] = "]"
                  /\ ~Contains(body, RBr)
          THEN [ok |-> TRUE, name |-> SubSeq(rest, 1, n),
                hasValue |-> TRUE, value |-> body]
          ELSE NoMatch

\* s.indexOf(c), from 0; -1 when c is not in s.
IndexOf(s, c) ==
  IF \E i \in 1..Len(s) : s[i] = c
  THEN (CHOOSE i \in 1..Len(s) : s[i] = c /\ \A j \in 1..(i - 1) : s[j] # c) - 1
  ELSE -1

\* s.substr(start, length) for start >= 0: a negative length gives "".
Substr(s, start, length) ==
  IF length <= 0 THEN <<>>
  ELSE SubSeq(s, start + 1, IF start + length > Len(s) THEN Len(s) ELSE start + length)

\* value.split(",")
RECURSIVE SplitComma(_)
SplitComma(s) ==
  LET i == IndexOf(s, ",")
  IN IF i < 0 THEN <<s>>
     ELSE <<SubSeq(s, 1, i)>> \o SplitComma(Drop(s, i + 1))

\* The pair a piece v gives: [v.substr(0, index), v.substr(index + 1)]
PiecePair(v) ==
  LET index == IndexOf(v, "=")
  IN Entry(Substr(v, 0, index), StrV(Drop(v, index + 1)))

\* The callback of the map in CQ.parse, for one token.
ParseToken(tagStr) ==
  LET match == CQ_TAG_REGEXP(tagStr)
  IN IF ~match.ok THEN CQText(tagStr)
     ELSE IF ~match.hasValue THEN CQTag(match.name, <<>>)
     ELSE LET pieces == SplitComma(match.value)
              data   == FromEntries([i \in DOMAIN pieces |-> PiecePair(pieces[i])])
          IN CQTag(match.name, data)

\* A slip in CQ.parse: the empty tokens filtered out before the map.
parseSkipEmpty(m) ==
  LET NotEmpty(t) == t # <<>>
      toks == SelectSeq(Split(m), NotEmpty)
  IN [i \in DOMAIN toks |-> ParseToken(toks[i])]

\* CQ.parse(msg)
parse(m) ==
  LET toks == Split(m)
  IN [i \in DOMAIN toks |-> ParseToken(toks[i])]

\* CQ.text(text): new CQText(String(text))
text(v) == CQText(JSString(v))

\* CQ.custom(type, data)
custom(type, data) == CQTag(type, data)

(***************************************************************************)
(* Idle values of the variables a specification does not use.              *)
(***************************************************************************)
NoStr == <<>>

EscIdle   == /\ str = NoStr /\ insideCQ = FALSE
             /\ escaped = NoStr /\ unescaped = NoStr
EmbedIdle == tname = NoStr /\ key = NoStr
ParseIdle == msg = NoStr /\ tokens = <<>> /\ tags = <<>>
TagIdle   == /\ tag = <<>> /\ ret = NoRet /\ op = "none"
             /\ ctor = <<>> /\ lastMod = <<>> /\ lastTag = NoRet

(***************************************************************************)
(* The escaper round trip: escape, then unescape of the result.            *)
(***************************************************************************)
EscFrags == { Amp, LBr, RBr, Comma, <<"a">>, <<"a", "m", "p", ";">>,
              <<"#", "9", "1", ";">>, <<"#", "4", "4", ";">>,
              <<"#", "9", "3", ";">> }

EscInputs == Words(EscFrags, MaxEscFrags)

InitEsc ==
  /\ pc = "start"
  /\ str \in EscInputs
  /\ insideCQ \in BOOLEAN
  /\ escaped = NoStr /\ unescaped = NoStr
  /\ EmbedIdle /\ ParseIdle /\ TagIdle

Escape ==
  /\ pc = "start"
  /\ escaped' = escape(str, insideCQ)
  /\ pc' = "escaped"
  /\ UNCHANGED <<str, insideCQ, unescaped, embedVars, parseVars, tagVars>>

Unescape ==
  /\ pc = "escaped"
  /\ unescaped' = unescape(escaped)
  /\ pc' = "unescaped"
  /\ UNCHANGED <<str, insideCQ, escaped, embedVars, parseVars, tagVars>>

NextEsc == Escape \/ Unescape

SpecEsc == InitEsc /\ [][NextEsc]_vars

NoEntity(s) ==
  /\ ~Contains(s, AmpEnt) /\ ~Contains(s, LBrEnt)
  /\ ~Contains(s, RBrEnt) /\ ~Contains(s, ComEnt)

\* C1: for every string s without the four entity sequences, and for both
\* values of insideTagValue, unescape(escape(s, insideTagValue)) = s.
EscapeRoundTrip ==
  (pc = "unescaped" /\ NoEntity(str)) => unescaped = str

\* C1 witness: a round trip, inside a tag value, of a string with an
\* ampersand, a bracket and a comma that the escaper did rewrite.
EscapeRoundTripWitness ==
  /\ pc = "unescaped" /\ NoEntity(str) /\ insideCQ
  /\ Contains(str, Amp) /\ Contains(str, LBr) /\ Contains(str, Comma)
  /\ escaped # str /\ unescaped = str

(***************************************************************************)
(* CQ.parse on a message.                                                  *)
(***************************************************************************)
At     == <<"a", "t">>
KeyK   == <<"k">>
ValV   == <<"v">>
ValW   == <<"w">>
One    == <<"1">>

MsgFrags == { <<"a">>, RBr, CQOpen, CQOpen \o At, Comma \o KeyK \o Eq \o ValV, LBr }

\* One piece of the attribute part of a tag token.
PiecePool ==
  { KeyK \o Eq \o ValV,
    KeyK \o Eq \o ValW,
    KeyK \o Eq \o ValV \o Eq \o ValW,
    <<"b">> \o Eq \o ValV,
    One \o Eq \o ValV,
    TypeName \o Eq \o ValV,
    DataName \o Eq \o ValV,
    KeyK,
    <<>> }

RECURSIVE JoinComma(_)
JoinComma(ps) ==
  IF Len(ps) = 1 THEN Head(ps) ELSE Head(ps) \o Comma \o JoinComma(Tail(ps))

PieceSeqs == UNION {[1..n -> PiecePool] : n \in 1..MaxPieces}

TagTypes == { At, TextName }

\* "[CQ:" type "," piece "," piece ... "]"
TagText(t, ps) == CQOpen \o t \o Comma \o JoinComma(ps) \o RBr

TagInputs == {TagText(t, ps) : t \in TagTypes, ps \in PieceSeqs}

ParseInputs == Words(MsgFrags, MaxMsgFrags) \cup TagInputs

InitParse ==
  /\ pc = "ready"
  /\ msg \in ParseInputs
  /\ tokens = <<>> /\ tags = <<>>
  /\ EscIdle /\ EmbedIdle /\ TagIdle

\* CQ.parse(msg); tokens records what msg.split(SPLIT) gave.
Parse ==
  /\ pc = "ready"
  /\ tokens' = Split(msg)
  /\ tags' = parse(msg)
  /\ pc' = "parsed"
  /\ UNCHANGED <<msg, escVars, embedVars, tagVars>>

NextParse == Parse

SpecParse == InitParse /\ [][NextParse]_vars

\* C2: the tokens of msg.split(SPLIT), concatenated in their order, are the
\* message: no character is dropped, duplicated or reordered.
TokensReconstitute ==
  pc = "parsed" => Concat(tokens) = msg

\* C2 witness: a message cut into at least three tokens, tag and text.
TokensReconstituteWitness ==
  /\ pc = "parsed" /\ Len(tokens) >= 3
  /\ \E i \in DOMAIN tokens : CQ_TAG_REGEXP(tokens[i]).ok
  /\ \E i \in DOMAIN tokens : ~CQ_TAG_REGEXP(tokens[i]).ok
  /\ Concat(tokens) = msg

\* The offsets of msg at which a token other than the first begins.
RECURSIVE TokenStarts(_)
TokenStarts(toks) ==
  IF Len(toks) <= 1 THEN {}
  ELSE LET front == SubSeq(toks, 1, Len(toks) - 1)
       IN TokenStarts(front) \cup {Len(Concat(front))}

ABracketB == <<"a", "]", "b">>

\* C3 as claimed: a token begins only immediately before "[CQ:" or
\* immediately after the "]" that closes a well-formed tag token, so "a]b"
\* is one text value.
TokenBoundaryWellFormed ==
  pc = "parsed" =>
    /\ \A i \in 2..Len(tokens) :
         \/ StartsWith(tokens[i], CQOpen)
         \/ CQ_TAG_REGEXP(tokens[i - 1]).ok
    /\ (msg = ABracketB => Len(tags) = 1)

\* C3 as amended: a token begins at exactly the inner offsets that lie
\* immediately before "[CQ:" or immediately after any "]", closing a tag or
\* not; "a]b" is the two text values "a]" and "b".
TokenBoundaryAnyBracket ==
  pc = "parsed" =>
    /\ TokenStarts(tokens) =
         {q \in 1..(Len(msg) - 1) :
            \/ (q + 4 <= Len(msg) /\ SubSeq(msg, q + 1, q + 4) = CQOpen)
            \/ msg[q] = "]"}
    /\ (msg = ABracketB => tags = <<CQText(<<"a", "]">>), CQText(<<"b">>)>>)

\* C3 witness: a "]" in literal text has cut the text in two.
TokenBoundaryWitness ==
  /\ pc = "parsed"
  /\ \E i \in 2..Len(tokens) :
       /\ ~StartsWith(tokens[i], CQOpen)
       /\ ~CQ_TAG_REGEXP(tokens[i - 1]).ok
       /\ tags[i].cls = "CQText" /\ tags[i - 1].cls = "CQText"

\* C4 as claimed: parse of the empty string is the empty sequence.
ParseEmptyIsEmpty ==
  (pc = "parsed" /\ msg = <<>>) => tags = <<>>

\* C4 as amended: parse of the empty string is one text value whose text is
\* the empty string; no message parses to the empty sequence.
ParseEmptyIsOneText ==
  pc = "parsed" =>
    /\ Len(tags) >= 1
    /\ (msg = <<>> => tags = <<CQText(<<>>)>>)

\* C4 witness: the empty message has been parsed.
ParseEmptyWitness ==
  pc = "parsed" /\ msg = <<>> /\ Len(tags) = 1 /\ tags[1].cls = "CQText"

\* What C5 says the base mapping of a tag token is: one entry per piece, in
\* piece order, cut at the first "=" of the piece.
ClaimedBase(value) ==
  LET pieces == SplitComma(value)
  IN [i \in DOMAIN pieces |->
        Entry(SubSeq(pieces[i], 1, IndexOf(pieces[i], "=")),
              StrV(Drop(pieces[i], IndexOf(pieces[i], "=") + 1)))]

\* The tokens C5 is read on: the tag grammar matches, there is an attribute
\* part, every piece has an "=" and no two pieces have the same key.
ClaimedCase(m) ==
  /\ CQ_TAG_REGEXP(m).ok
  /\ CQ_TAG_REGEXP(m).hasValue
  /\ LET b == ClaimedBase(CQ_TAG_REGEXP(m).value)
         pieces == SplitComma(CQ_TAG_REGEXP(m).value)
     IN /\ \A i \in DOMAIN pieces : IndexOf(pieces[i], "=") >= 0
        /\ \A i, j \in DOMAIN b : i # j => b[i].k # b[j].k

\* C5: a token that matches the tag grammar and has an attribute part parses
\* to a tag whose type is the first capture and whose base mapping has one
\* entry per piece, in piece order, with the key the text before the first
\* "=" of the piece and the value the raw text after it.
TagTokenParsed ==
  (pc = "parsed" /\ Len(tokens) = 1 /\ ClaimedCase(msg)) =>
    /\ Len(tags) = 1
    /\ tagName(tags[1]) = RetVal(StrV(CQ_TAG_REGEXP(msg).name))
    /\ ThisData(tags[1]) = RetVal(ObjV(ClaimedBase(CQ_TAG_REGEXP(msg).value)))

\* C5 where no key is a member name or an array index: the claim holds.
TagTokenParsedPlainKeys ==
  (/\ pc = "parsed" /\ Len(tokens) = 1 /\ ClaimedCase(msg)
   /\ \A i \in DOMAIN ClaimedBase(CQ_TAG_REGEXP(msg).value) :
        LET k == ClaimedBase(CQ_TAG_REGEXP(msg).value)[i].k
        IN k \notin MemberNames /\ ~IsArrayIndex(k))
  =>
    /\ Len(tags) = 1
    /\ tagName(tags[1]) = RetVal(StrV(CQ_TAG_REGEXP(msg).name))
    /\ ThisData(tags[1]) = RetVal(ObjV(ClaimedBase(CQ_TAG_REGEXP(msg).value)))

(***************************************************************************)
(* A value escaped for a tag, embedded in a tag token, parsed and read     *)
(* back: CQ.escape, CQ.parse, get and CQ.unescape in a row.                *)
(***************************************************************************)
EmbedFrags == { Amp, LBr, RBr, Comma, Eq, <<"a">>, CQOpen }

EmbedKeys == { KeyK, <<>>, One, <<"C", "Q", ":">>, TypeName, DataName }

InitEmbed ==
  /\ pc = "start"
  /\ tname \in TagTypes
  /\ key \in EmbedKeys
  /\ str \in Words(EmbedFrags, MaxEmbedFrags)
  /\ insideCQ = TRUE
  /\ escaped = NoStr /\ unescaped = NoStr
  /\ ParseIdle /\ TagIdle

\* "[CQ:" + tname + "," + key + "=" + CQ.escape(str, true) + "]"
Embed ==
  /\ pc = "start"
  /\ escaped' = escape(str, insideCQ)
  /\ msg' = CQOpen \o tname \o Comma \o key \o Eq \o escaped' \o RBr
  /\ pc' = "ready"
  /\ UNCHANGED <<str, insideCQ, unescaped, embedVars, tokens, tags, tagVars>>

\* x.get(k) called on an instance.
CallGet(this, k) ==
  LET f == Method(this, GetName)
  IN IF f.err # "" THEN f ELSE get(this, k)

\* CQ.unescape(v): str.replace of a value that is no string is a TypeError.
UnescapeValue(r) ==
  IF r.err # "" THEN r
  ELSE IF r.v.t # "string" THEN Throw("TypeError")
  ELSE RetVal(StrV(unescape(r.v.s)))

\* CQ.unescape(tags[0].get(key))
ReadBack ==
  /\ pc = "parsed"
  /\ ret' = UnescapeValue(CallGet(tags[1], key))
  /\ pc' = "done"
  /\ UNCHANGED <<escVars, embedVars, parseVars, tag, op, ctor, lastMod, lastTag>>

NextEmbed == Embed \/ Parse \/ ReadBack

SpecEmbed == InitEmbed /\ [][NextEmbed]_vars

\* C10: for every string s, lowercase type name t and key k without "=",
\* ",", "[" and "]", parse of "[CQ:" t "," k "=" escape(s, true) "]" is
\* exactly one tag, of type t, whose base mapping is exactly
\* {k: escape(s, true)}, and unescape of that stored value is s.
EmbeddedValueSurvives ==
  pc = "done" =>
    /\ Len(tags) = 1
    /\ tagName(tags[1]) = RetVal(StrV(tname))
    /\ ThisData(tags[1]) = RetVal(ObjV(<<Entry(key, StrV(escaped))>>))
    /\ ret = RetVal(StrV(str))

\* C10 where the key is no member name: the claim holds.
EmbeddedValueSurvivesPlainKeys ==
  key \notin MemberNames => EmbeddedValueSurvives

(***************************************************************************)
(* One tag and the calls made on it.                                       *)
(***************************************************************************)
Face    == <<"f", "a", "c", "e">>
IdKey   == <<"i", "d">>
QqKey   == <<"q", "q">>
UrlKey  == <<"u", "r", "l">>
Extra   == <<"e", "x", "t", "r", "a">>
Hi      == <<"h", "i">>

\* The entries a base object literal is written from.
BaseEntries ==
  { Entry(IdKey, NumV(1)),
    Entry(QqKey, Null),
    Entry(UrlKey, Undefined),
    Entry(One, StrV(<<"b">>)),
    Entry(TextName, StrV(Hi)),
    Entry(TypeName, StrV(<<"x">>)),
    Entry(DataName, StrV(<<"x">>)),
    Entry(ModifierName, StrV(<<"m", "m">>)),
    Entry(ToStringName, StrV(<<"x">>)) }

\* The object literals of at most n entries of pool, no key written twice,
\* as the sequences of their entries in the order written.
RECURSIVE Literals(_, _)
Literals(pool, n) ==
  IF n = 0 THEN {<<>>}
  ELSE LET L == Literals(pool, n - 1)
       IN L \cup UNION {{Append(l, e) :
                            e \in {x \in pool : \A i \in DOMAIN l : l[i].k # x.k}} :
                         l \in L}

BaseLits == Literals(BaseEntries, MaxBaseAttrs)

\* The arguments of modifier().
ModLits ==
  { <<>>,
    <<Entry(IdKey, NumV(2)), Entry(Extra, StrV(<<"x">>))>>,
    <<Entry(Extra, StrV(<<"x">>)), Entry(IdKey, NumV(2))>>,
    <<Entry(IdKey, Undefined)>>,
    <<Entry(QqKey, StrV(<<"q">>)), Entry(Extra, Null)>>,
    <<Entry(Extra, StrV(<<"x">>)), Entry(One, StrV(<<"c">>))>>,
    <<Entry(TextName, StrV(<<"z">>))>> }

TextArgs == { StrV(Hi), StrV(<<>>), StrV(CQOpen \o At \o RBr), NumV(1) }

ParseSeeds ==
  { <<"a">> \o CQOpen \o TextName \o Comma \o TextName \o Eq \o Hi \o RBr,
    CQOpen \o <<"b", "a", "d">>,
    CQOpen \o Face \o Comma \o IdKey \o Eq \o One \o RBr \o <<"]", "w">> }

GetKeys == { IdKey, TextName, TypeName, ToStringName }

\* How the tag was made, with the base mapping it was made from (data, the
\* entries in the order written).
Ctor(how, type, data, arg, m, idx) ==
  [how |-> how, type |-> type, data |-> data, arg |-> arg, msg |-> m, idx |-> idx]

TagCtors ==
  {Ctor("text", TextName, <<Entry(TextName, StrV(JSString(v)))>>, v, <<>>, 0) :
     v \in TextArgs}
  \cup {Ctor("custom", t, l, Undefined, <<>>, 0) : t \in {Face, TextName}, l \in BaseLits}
  \cup UNION {{Ctor("parse", parse(m)[i].type.s, parse(m)[i].data.o, Undefined, m, i) :
                 i \in DOMAIN parse(m)} : m \in ParseSeeds}

Construct(c) ==
  CASE c.how = "text"   -> text(c.arg)
    [] c.how = "custom" -> custom(c.type, FromEntries(c.data))
    [] OTHER            -> parse(c.msg)[c.idx]

InitTag ==
  /\ pc = "tag"
  /\ ctor \in TagCtors
  /\ tag = Construct(ctor)
  /\ ret = NoRet /\ op = "new" /\ lastMod = <<>> /\ lastTag = NoRet
  /\ EscIdle /\ EmbedIdle /\ ParseIdle

\* x.modifier(m) called on an instance.
CallModifier(this, m) ==
  LET f == Method(this, ModifyName)
  IN IF f.err # "" THEN [this |-> this, ret |-> f] ELSE modifier(this, m)

\* x.toString() called on an instance.
CallToString(this) ==
  LET f == Method(this, ToStringName)
  IN IF f.err # "" THEN f ELSE toString(this)

\* x.toTag() called on an instance.
CallToTag(this) ==
  LET f == Method(this, ToTagName)
  IN IF f.err # "" THEN f ELSE toTag(this)

\* x.toJSON() called on an instance.
CallToJSON(this) ==
  LET f == Method(this, ToJSONName)
  IN IF f.err # "" THEN f ELSE toJSON(this)

Modifier ==
  /\ pc = "tag"
  /\ \E m \in ModLits :
       /\ tag' = CallModifier(tag, FromEntries(m)).this
       /\ ret' = CallModifier(tag, FromEntries(m)).ret
       /\ lastMod' = m
  /\ op' = "modifier"
  /\ lastTag' = NoRet
  /\ UNCHANGED <<pc, ctor, escVars, embedVars, parseVars>>

ToString ==
  /\ pc = "tag"
  /\ ret' = CallToString(tag)
  /\ op' = "toString"
  /\ UNCHANGED <<pc, tag, ctor, lastMod, lastTag, escVars, embedVars, parseVars>>

ToTag ==
  /\ pc = "tag"
  /\ ret' = CallToTag(tag)
  /\ op' = "toTag"
  /\ lastTag' = ret'
  /\ UNCHANGED <<pc, tag, ctor, lastMod, escVars, embedVars, parseVars>>

ToJSON ==
  /\ pc = "tag"
  /\ ret' = CallToJSON(tag)
  /\ op' = "toJSON"
  /\ lastTag' = ret'
  /\ UNCHANGED <<pc, tag, ctor, lastMod, escVars, embedVars, parseVars>>

Get ==
  /\ pc = "tag"
  /\ \E k \in GetKeys : ret' = CallGet(tag, k)
  /\ op' = "get"
  /\ UNCHANGED <<pc, tag, ctor, lastMod, lastTag, escVars, embedVars, parseVars>>

NextTag == Modifier \/ ToString \/ ToTag \/ ToJSON \/ Get

SpecTag == InitTag /\ [][NextTag]_vars

(***************************************************************************)
(* What the specification says of the overlaid mapping, written from the   *)
(* mappings the calls were given: ctor.data, the base as constructed, and  *)
(* lastMod, the argument of the latest modifier call.                      *)
(***************************************************************************)
ClaimedKeys ==
  LET OverrideOnly(k) == ~HasOwn(ctor.data, k)
  IN KeySeq(ctor.data) \o SelectSeq(KeySeq(lastMod), OverrideOnly)

ClaimedValue(k) ==
  IF HasOwn(lastMod, k) THEN OwnValue(lastMod, k) ELSE OwnValue(ctor.data, k)

ClaimedWire ==
  CQOpen \o ctor.type
    \o Concat([i \in DOMAIN ClaimedKeys |->
                 IF ClaimedValue(ClaimedKeys[i]).t = "undefined" THEN <<>>
                 ELSE Comma \o ClaimedKeys[i] \o Eq
                        \o JSString(ClaimedValue(ClaimedKeys[i]))])
    \o RBr

EndsWith(s, p) == Len(s) >= Len(p) /\ SubSeq(s, Len(s) - Len(p) + 1, Len(s)) = p

\* The wire text w has the pair ,k=vs (up to the next "," or the final "]").
Emits(w, k, vs) ==
  \/ Contains(w, Comma \o k \o Eq \o vs \o Comma)
  \/ EndsWith(w, Comma \o k \o Eq \o vs \o RBr)

\* The tags whose wire text is not the text kind's own: those not made by
\* the text factory nor from a token outside the tag grammar.
IsTextRun ==
  \/ ctor.how = "text"
  \/ (ctor.how = "parse" /\ ~CQ_TAG_REGEXP(Split(ctor.msg)[ctor.idx]).ok)

\* C6: toString emits the overlaid attributes, the override value winning
\* where a key is in both mappings, in the order: the base keys in base
\* insertion order, then the override-only keys in their insertion order.
OverridePrecedence ==
  (op = "toString" /\ ~IsTextRun) => ret = RetVal(StrV(ClaimedWire))

\* C7: a key whose overlaid value is undefined is in neither form; one whose
\* value is null is in the wire text (as ,key=null) and not in the data of
\* the structured form; every other value is in both.
AbsentFiltering ==
  /\ (op = "toString" /\ ~IsTextRun) =>
       /\ ret.err = "" /\ ret.v.t = "string"
       /\ \A i \in DOMAIN ClaimedKeys :
            LET k == ClaimedKeys[i]
                v == ClaimedValue(k)
            IN IF v.t = "undefined"
               THEN ~Contains(ret.v.s, Comma \o k \o Eq)
               ELSE Emits(ret.v.s, k, JSString(v))
  /\ op = "toTag" =>
       /\ ret.kind = "tag"
       /\ \A i \in DOMAIN ClaimedKeys :
            LET k == ClaimedKeys[i]
                v == ClaimedValue(k)
            IN IF v.t \in {"undefined", "null"}
               THEN ~HasOwn(ret.data, k)
               ELSE HasOwn(ret.data, k) /\ OwnValue(ret.data, k) = v

\* C8: after any calls of modifier, toString, toTag, toJSON and get, the base
\* mapping is the one the tag was constructed with and the override mapping
\* is the argument of the latest modifier call (empty before the first);
\* only modifier changes the tag, and a structured form taken again with no
\* modifier call in between is the same.
FrameOfCalls ==
  [][ /\ ThisData(tag') = RetVal(ObjV(FromEntries(ctor'.data)))
      /\ ThisModifier(tag') = RetVal(ObjV(FromEntries(lastMod')))
      /\ (op' # "modifier" => tag' = tag)
      /\ ((op' \in {"toTag", "toJSON"} /\ lastTag # NoRet) => ret' = lastTag)
    ]_vars

RunText ==
  IF ctor.how = "text" THEN JSString(ctor.arg) ELSE Split(ctor.msg)[ctor.idx]

PlainKeys == \A i \in DOMAIN ctor.data : ctor.data[i].k \notin MemberNames

\* No key of the base or of the override is an array index.
NoIndexKeys ==
  /\ \A i \in DOMAIN ctor.data : ~IsArrayIndex(ctor.data[i].k)
  /\ \A i \in DOMAIN lastMod : ~IsArrayIndex(lastMod[i].k)

\* C6 where no base key is a member name and no key is an array index: the
\* claim holds.
OverridePrecedencePlainKeys ==
  (PlainKeys /\ NoIndexKeys) => OverridePrecedence

\* C7 where no base key is a member name: the claim holds.
AbsentFilteringPlainKeys == PlainKeys => AbsentFiltering

\* C8 where no base key is a member name: the claim holds.
FrameOfCallsPlainKeys ==
  [][ PlainKeys =>
        /\ ThisData(tag') = RetVal(ObjV(FromEntries(ctor'.data)))
        /\ ThisModifier(tag') = RetVal(ObjV(FromEntries(lastMod')))
        /\ (op' # "modifier" => tag' = tag)
        /\ ((op' \in {"toTag", "toJSON"} /\ lastTag # NoRet) => ret' = lastTag)
    ]_vars

====
